---- MODULE Spec2Model ----
(***************************************************************************)
(* Model of the realtime voting service (jnst/bhvr-ws):                    *)
(*   - the in-memory DataStore (polls, vote log, per-poll voter set),      *)
(*   - the HTTP handlers of routes/polls (create, get, vote, results, end),*)
(*   - the WebSocketManager registry (add/remove/broadcast/sendToClient).  *)
(* JavaScript runs handlers on one thread: a handler runs from one await   *)
(* to the next without interleaving.  The POST handlers await exactly once *)
(* (c.req.json()), before they touch the store: such a request is first    *)
(* "received" (its handler is in flight, awaiting the body) and later      *)
(* "handled" in one step that starts with the body the await delivers.     *)
(* The GET handlers never await and answer in one step.                    *)
(***************************************************************************)
EXTENDS Integers, Sequences, FiniteSets, Bags, TLC

VARIABLES
    polls,        \* DataStore.polls       : Map<string, Poll>
    votes,        \* DataStore.votes       : Map<string, Vote[]>
    pollVoters,   \* DataStore.pollVoters  : Map<string, Set<string>>
    idCounter,    \* number of ids handed out by generateId()
    inflight,     \* bag of requests whose handler awaits c.req.json()
    received,     \* number of HTTP requests received so far
    connections,  \* WebSocketManager.connections : Map<string, Set<WebSocketConnection>>
    clientCounter,\* number of client ids handed out by generateClientId()
    timers,       \* pending setTimeout callbacks of addConnection
    broken,       \* sockets whose send() throws
    calls,        \* number of WebSocketManager calls made so far
    last,         \* the most recent operation, its response and what it sent
    accepted,     \* history: bag of (pollId, voterId) that got a success response
    createdOptions, \* history: option sequence of each poll when it was created
    endings,      \* history: bag of poll ids whose end request got a success response
    phase,        \* useWebSocket: "rendered", "mounted" or "unmounted"
    hookPollId,   \* useWebSocket: the pollId of the current render
    clientSockets, \* useWebSocket: the WebSockets it created, oldest first
    wsRef,        \* useWebSocket: wsRef.current, an index of clientSockets or 0
    reconnectTimers, \* useWebSocket: the pending setTimeout callbacks
    reconnectTimeoutRef, \* useWebSocket: reconnectTimeoutRef.current, a timer id or 0
    timerCount,   \* useWebSocket: the number of timers set so far
    hookCalls,    \* useWebSocket: renders with a new pollId and calls by the component
    reconnectAttempts, \* useWebSocket: reconnectAttempts.current
    isConnected,  \* useWebSocket: the value last given to setIsConnected
    error,        \* useWebSocket: the value last given to setError
    attemptsSinceOpen,  \* history: reconnects scheduled since the last open
    attemptsSinceReset, \* history: reconnects scheduled since the last open or disconnect
    subscription  \* history: poll id of each socket's most recent registration

storeVars == <<polls, votes, pollVoters, idCounter>>
httpVars == <<inflight, received>>
wsVars == <<connections, clientCounter, timers, broken, calls>>
histVars == <<accepted, createdOptions, endings, subscription>>
hookVars == <<phase, hookPollId, clientSockets, wsRef, reconnectTimers,
              reconnectTimeoutRef, timerCount, hookCalls, reconnectAttempts,
              isConnected,
              error, attemptsSinceOpen, attemptsSinceReset>>
vars == <<polls, votes, pollVoters, idCounter, inflight, received,
          connections, clientCounter, timers, broken, calls, last,
          accepted, createdOptions, endings, subscription, hookVars>>

(***************************************************************************)
(* Bounds of the model.                                                    *)
(***************************************************************************)
MaxPolls == 2        \* polls created
MaxRequests == 4     \* HTTP requests received
MaxInflight == 2     \* requests awaiting their body at the same time
MaxCalls == 4        \* WebSocketManager calls
MaxOps == 3          \* requests and calls together, when both are modelled
MaxClientSockets == 6 \* WebSockets created by the hook
MaxHookCalls == 1    \* pollId changes and calls of the returned connect and disconnect

(***************************************************************************)
(* JavaScript values of request bodies.  A string that is an id is a TLA+  *)
(* string; a text (title, option text) is a sequence of characters so      *)
(* that trim() and the tag-stripping regular expression can be computed.   *)
(***************************************************************************)
Undefined == [type |-> "undefined"]
Null == [type |-> "null"]
InvalidJson == [type |-> "invalid"]
Str(s) == [type |-> "string", val |-> s]
Num(n) == [type |-> "number", val |-> n]
Arr(a) == [type |-> "array", val |-> a]

\* !v for a field holding an id
Falsy(v) ==
    \/ v.type \in {"undefined", "null"}
    \/ v.type = "string" /\ v.val = ""
    \/ v.type = "number" /\ v.val = 0

\* !v for a field holding a text or an array (an array is always truthy)
FalsyText(v) ==
    \/ v.type \in {"undefined", "null"}
    \/ v.type = "string" /\ v.val = <<>>
    \/ v.type = "number" /\ v.val = 0

(***************************************************************************)
(* Map helpers (JavaScript Map get/set/has).                               *)
(***************************************************************************)
MapSet(m, k, v) == [x \in DOMAIN m \cup {k} |-> IF x = k THEN v ELSE m[x]]
MapDelete(m, k) == [x \in DOMAIN m \ {k} |-> m[x]]
MapHas(m, k) == k \in DOMAIN m

(***************************************************************************)
(* utils/id.ts                                                             *)
(***************************************************************************)
generateId(n) == ToString(n)
\* every poll gets the same id
generatePollId_constant(n) == "poll-1"

generatePollId(n) == "poll-" \o generateId(n)
generateVoteId(n) == "vote-" \o generateId(n)
generateOptionId(n) == "opt-" \o generateId(n)

(***************************************************************************)
(* utils/validation.ts                                                     *)
(***************************************************************************)
MaxTitleLength == 200
MinOptions == 2
MaxOptions == 10
MaxOptionLength == 100

IsSpace(c) == c = " "

RECURSIVE TrimStart(_)
TrimStart(s) ==
    IF s # <<>> /\ IsSpace(Head(s)) THEN TrimStart(Tail(s)) ELSE s

RECURSIVE TrimEnd(_)
TrimEnd(s) ==
    IF s # <<>> /\ IsSpace(s[Len(s)]) THEN TrimEnd(SubSeq(s, 1, Len(s) - 1)) ELSE s

\* String.prototype.trim
Trim(s) == TrimEnd(TrimStart(s))

\* input.replace(/<[^>]*>/g, ''): every "<" that has a ">" after it is
\* removed together with everything up to the first such ">"
RECURSIVE sanitizeHtml(_)
sanitizeHtml(s) ==
    IF s = <<>> THEN <<>>
    ELSE IF Head(s) = "<" /\ \E j \in 2..Len(s) : s[j] = ">"
         THEN LET j == CHOOSE i \in 2..Len(s) :
                          s[i] = ">" /\ \A k \in 2..(i - 1) : s[k] # ">"
              IN  sanitizeHtml(SubSeq(s, j + 1, Len(s)))
         ELSE <<Head(s)>> \o sanitizeHtml(Tail(s))

sanitizePollData(data) ==
    [title |-> sanitizeHtml(Trim(data.title.val)),
     options |-> [i \in 1..Len(data.options.val) |->
                      sanitizeHtml(Trim(data.options.val[i].val))]]

titleErrors(data) ==
    IF FalsyText(data.title) THEN <<"title-required">>
    ELSE IF data.title.type # "string" THEN <<"title-not-string">>
    ELSE IF Len(Trim(data.title.val)) = 0 THEN <<"title-required">>
    ELSE IF Len(data.title.val) > MaxTitleLength THEN <<"title-too-long">>
    ELSE <<>>

optionError(option) ==
    IF option.type # "string" THEN <<"option-not-string">>
    ELSE IF Len(Trim(option.val)) = 0 THEN <<"option-empty">>
    ELSE IF Len(option.val) > MaxOptionLength THEN <<"option-too-long">>
    ELSE <<>>

RECURSIVE eachOptionErrors(_)
eachOptionErrors(opts) ==
    IF opts = <<>> THEN <<>>
    ELSE optionError(Head(opts)) \o eachOptionErrors(Tail(opts))

\* the number of options has no upper limit
optionsErrors_noUpperLimit(data) ==
    IF FalsyText(data.options) THEN <<"options-required">>
    ELSE IF data.options.type # "array" THEN <<"options-not-array">>
    ELSE IF Len(data.options.val) < MinOptions THEN <<"options-too-few">>
    ELSE eachOptionErrors(data.options.val)

optionsErrors(data) ==
    IF FalsyText(data.options) THEN <<"options-required">>
    ELSE IF data.options.type # "array" THEN <<"options-not-array">>
    ELSE IF Len(data.options.val) < MinOptions THEN <<"options-too-few">>
    ELSE IF Len(data.options.val) > MaxOptions THEN <<"options-too-many">>
    ELSE eachOptionErrors(data.options.val)

validatePollCreation(data) ==
    IF data.type = "null"
    THEN [isValid |-> FALSE, errors |-> <<"body-required">>]
    ELSE LET errors == titleErrors(data) \o optionsErrors(data)
         IN  [isValid |-> Len(errors) = 0, errors |-> errors]

validateVote(data) ==
    IF data.type = "null"
    THEN [isValid |-> FALSE, errors |-> <<"body-required">>]
    ELSE LET optionIdErrors ==
                 IF Falsy(data.optionId) THEN <<"optionId-required">>
                 ELSE IF data.optionId.type # "string" THEN <<"optionId-not-string">>
                 ELSE <<>>
             voterIdErrors ==
                 IF Falsy(data.voterId) THEN <<"voterId-required">>
                 ELSE IF data.voterId.type # "string" THEN <<"voterId-not-string">>
                 ELSE <<>>
             errors == optionIdErrors \o voterIdErrors
         IN  [isValid |-> Len(errors) = 0, errors |-> errors]

(***************************************************************************)
(* utils/errors.ts                                                         *)
(***************************************************************************)
NoData == [none |-> TRUE]

\* createErrorResponse(error) together with the HTTP status of c.json
ErrorResponse(status, code) ==
    [status |-> status, success |-> FALSE, code |-> code, data |-> NoData]

SuccessResponse(status, data) ==
    [status |-> status, success |-> TRUE, code |-> "", data |-> data]

(***************************************************************************)
(* data/store.ts : DataStore                                               *)
(***************************************************************************)
getPoll(id) == IF MapHas(polls, id) THEN polls[id] ELSE Undefined

\* a voter of any poll counts as a voter of this poll
hasVoted_anyPoll(pollId, voterId) ==
    \E p \in DOMAIN pollVoters : voterId \in pollVoters[p]

hasVoted(pollId, voterId) ==
    LET voters == IF MapHas(pollVoters, pollId) THEN pollVoters[pollId] ELSE {}
    IN  voterId \in voters

getVotes(pollId) == IF MapHas(votes, pollId) THEN votes[pollId] ELSE <<>>

\* every vote of the poll counts for every option
countVotesFor_all(vs, optionId) == Len(vs)

\* votes.filter(v => v.optionId === option.id).length
RECURSIVE countVotesFor(_, _)
countVotesFor(vs, optionId) ==
    IF vs = <<>> THEN 0
    ELSE (IF Head(vs).optionId = optionId THEN 1 ELSE 0)
         + countVotesFor(Tail(vs), optionId)

RECURSIVE Gcd(_, _)
Gcd(a, b) == IF b = 0 THEN a ELSE Gcd(b, a % b)

\* a JavaScript number that is a quotient, kept as an exact fraction in
\* lowest terms (rounding of the double is not modelled)
Fraction(n, d) == [num |-> n \div Gcd(n, d), den |-> d \div Gcd(n, d)]

\* a percentage rounded down to a whole number
percentageOf_rounded(optionVotes, totalVotes) ==
    IF totalVotes > 0 THEN Fraction((optionVotes * 100) \div totalVotes, 1)
    ELSE Fraction(0, 1)

\* totalVotes > 0 ? (optionVotes / totalVotes) * 100 : 0
percentageOf(optionVotes, totalVotes) ==
    IF totalVotes > 0 THEN Fraction(optionVotes * 100, totalVotes)
    ELSE Fraction(0, 1)

\* the callback of poll.options.map: { ...option, votes, percentage }
optionResult(option, vs) ==
    LET totalVotes == Len(vs)
        optionVotes == countVotesFor(vs, option.id)
    IN  [id |-> option.id, text |-> option.text,
         votes |-> optionVotes,
         percentage |-> percentageOf(optionVotes, totalVotes)]

\* the results ranked by vote count instead of kept in the poll's order
aggregateResultsOf_ranked(poll, vs) ==
    SortSeq([i \in 1..Len(poll.options) |-> optionResult(poll.options[i], vs)],
            LAMBDA a, b : a.votes > b.votes)

\* poll.options.map(option => ...)
aggregateResultsOf(poll, vs) ==
    [i \in 1..Len(poll.options) |-> optionResult(poll.options[i], vs)]

aggregateResults(pollId) ==
    IF ~MapHas(polls, pollId) THEN <<>>
    ELSE aggregateResultsOf(polls[pollId], getVotes(pollId))

\* the view that keeps the stored totalVotes of the poll
getPollWithResults_storedTotal(pollId) ==
    IF ~MapHas(polls, pollId) THEN Undefined
    ELSE [polls[pollId] EXCEPT !.options = aggregateResults(pollId)]

getPollWithResults(pollId) ==
    IF ~MapHas(polls, pollId) THEN Undefined
    ELSE LET poll == polls[pollId]
             updatedOptions == aggregateResults(pollId)
             totalVotes == Len(getVotes(pollId))
         IN  [poll EXCEPT !.options = updatedOptions, !.totalVotes = totalVotes]

\* only the poll is stored: no vote log and no voter set are set up
createPoll_pollOnly(poll) ==
    [polls |-> MapSet(polls, poll.id, poll),
     votes |-> votes,
     pollVoters |-> pollVoters]

\* this.polls.set / this.votes.set / this.pollVoters.set of createPoll
createPoll(poll) ==
    [polls |-> MapSet(polls, poll.id, poll),
     votes |-> MapSet(votes, poll.id, <<>>),
     pollVoters |-> MapSet(pollVoters, poll.id, {})]

\* { ...poll, ...updates }
Spread(poll, updates) ==
    [f \in DOMAIN poll \cup DOMAIN updates |->
        IF f \in DOMAIN updates THEN updates[f] ELSE poll[f]]

updatePoll(id, updates) ==
    IF ~MapHas(polls, id) THEN [found |-> FALSE, polls |-> polls]
    ELSE [found |-> TRUE, polls |-> MapSet(polls, id, Spread(polls[id], updates))]

\* the voter is not recorded
trackVoter_forgotten(voters, voterId) == voters

\* voters.add(vote.voterId)
trackVoter(voters, voterId) == voters \cup {voterId}

\* the vote is stored and the caller is told it was not
addVote_reportsFailure(vote) ==
    LET voters == IF MapHas(pollVoters, vote.pollId)
                  THEN pollVoters[vote.pollId] ELSE {}
        log == IF MapHas(votes, vote.pollId) THEN votes[vote.pollId] ELSE <<>>
    IN  [ok |-> FALSE,
         votes |-> MapSet(votes, vote.pollId, Append(log, vote)),
         pollVoters |-> MapSet(pollVoters, vote.pollId,
                               trackVoter(voters, vote.voterId))]

\* the result of addVote and the maps it leaves behind
addVote(vote) ==
    LET voters == IF MapHas(pollVoters, vote.pollId)
                  THEN pollVoters[vote.pollId] ELSE {}
        log == IF MapHas(votes, vote.pollId) THEN votes[vote.pollId] ELSE <<>>
    IN  IF ~MapHas(polls, vote.pollId) \/ vote.voterId \in voters
        THEN [ok |-> FALSE, votes |-> votes, pollVoters |-> pollVoters]
        ELSE [ok |-> TRUE,
              votes |-> MapSet(votes, vote.pollId, Append(log, vote)),
              pollVoters |-> MapSet(pollVoters, vote.pollId,
                                    trackVoter(voters, vote.voterId))]

(***************************************************************************)
(* Requests.  The sets below are the inputs the model draws from.          *)
(***************************************************************************)
Voters == {"v1", "v2", "v3"}
UnknownPollId == "poll-0"
UnknownOptionId == "opt-0"
Creator == "anonymous"
OtherUser == "user-456"

TitleValues == {Str(<<"L">>), Str(<<>>), Str(<<"<", "b", ">">>)}
ValidOptionList == Arr(<<Str(<<"S">>), Str(<<"R">>)>>)
OptionListValues ==
    {Arr(<<Str(<<"S">>), Str(<<"R">>)>>),
     Arr(<<Str(<<"R">>), Str(<<"S">>), Str(<<"U">>)>>),
     Arr(<<Str(<<"S">>)>>),
     Arr([i \in 1..(MaxOptions + 1) |-> Str(<<"S">>)])}

CreateBodies ==
    {[type |-> "object", title |-> Str(<<"L">>), options |-> o] :
        o \in OptionListValues}
    \cup {[type |-> "object", title |-> t, options |-> ValidOptionList] :
              t \in TitleValues}

NoPollParam == ""
PollIdParams == DOMAIN polls \cup {UnknownPollId}

\* the unknown option id passes for an option of every poll
optionIdsOf_withUnknown(pollId) ==
    IF MapHas(polls, pollId)
    THEN {polls[pollId].options[i].id : i \in 1..Len(polls[pollId].options)}
             \cup {UnknownOptionId}
    ELSE {}

optionIdsOf(pollId) ==
    IF MapHas(polls, pollId)
    THEN {polls[pollId].options[i].id : i \in 1..Len(polls[pollId].options)}
    ELSE {}

OptionIdValues(pollId) ==
    {Str(UnknownOptionId)} \cup {Str(o) : o \in optionIdsOf(pollId)}
VoterIdValues == {Str(v) : v \in Voters}

\* bodies that validateVote rejects, one for each of its branches
MalformedVoteBodies ==
    {Null,
     [type |-> "object", optionId |-> Str(""), voterId |-> Str("v1")],
     [type |-> "object", optionId |-> Num(7), voterId |-> Str("v1")],
     [type |-> "object", optionId |-> Str(UnknownOptionId), voterId |-> Undefined],
     [type |-> "object", optionId |-> Str(UnknownOptionId), voterId |-> Num(7)]}

VoteBodies(pollId) ==
    {InvalidJson} \cup MalformedVoteBodies \cup
    {[type |-> "object", optionId |-> o, voterId |-> v] :
        o \in OptionIdValues(pollId), v \in VoterIdValues}

CreatedByValues == {Undefined, Str(""), Str(Creator), Str(OtherUser)}
EndBodies ==
    {Null, InvalidJson} \cup
    {[type |-> "object", createdBy |-> x] : x \in CreatedByValues}

\* a handler that awaits c.req.json(): it holds the route and the path
\* parameter; the body is what the await delivers
Request(kind, pollId) == [kind |-> kind, pollId |-> pollId]

Event(kind, pollId, body, response, sent) ==
    [kind |-> kind, pollId |-> pollId, body |-> body,
     response |-> response, sent |-> sent]

NoResponse == [status |-> 0, success |-> FALSE, code |-> "", data |-> NoData]

\* a request arrives and its handler starts: it reads the path parameter
\* and awaits the body
Receive(r) ==
    /\ received < MaxRequests
    /\ BagCardinality(inflight) < MaxInflight
    /\ inflight' = inflight (+) SetToBag({r})
    /\ received' = received + 1
    /\ last' = Event("receive", r.pollId, Undefined, NoResponse, <<>>)
    /\ UNCHANGED <<storeVars, wsVars, histVars, hookVars>>

ReceiveCreate ==
    /\ Cardinality(DOMAIN polls)
         + Cardinality({r \in BagToSet(inflight) : r.kind = "create"}) < MaxPolls
    /\ Receive(Request("create", NoPollParam))

ReceiveVote == \E p \in PollIdParams : Receive(Request("vote", p))

ReceiveEnd == \E p \in PollIdParams : Receive(Request("end", p))

\* the handler's response is sent; nothing but the response is produced
Respond(r, body, response) ==
    /\ inflight' = inflight (-) SetToBag({r})
    /\ last' = Event(r.kind, r.pollId, body, response, <<>>)
    /\ UNCHANGED <<received, hookVars>>

(***************************************************************************)
(* routes/polls.ts                                                         *)
(***************************************************************************)
\* polls.post('/')
HandleCreate(r, body) ==
    /\ r.kind = "create"
    /\ BagIn(r, inflight)
    /\ IF body.type = "invalid"
       THEN /\ Respond(r, body, ErrorResponse(500, "INTERNAL_ERROR"))
            /\ UNCHANGED <<storeVars, createdOptions>>
       ELSE IF ~validatePollCreation(body).isValid
       THEN /\ Respond(r, body, ErrorResponse(400, "VALIDATION_ERROR"))
            /\ UNCHANGED <<storeVars, createdOptions>>
       ELSE LET sanitized == sanitizePollData(body)
                pollId == generatePollId(idCounter + 1)
                options == [i \in 1..Len(sanitized.options) |->
                               [id |-> generateOptionId(idCounter + 1 + i),
                                text |-> sanitized.options[i],
                                votes |-> 0,
                                percentage |-> Fraction(0, 1)]]
                poll == [id |-> pollId, title |-> sanitized.title,
                         options |-> options, status |-> "active",
                         createdBy |-> Creator, totalVotes |-> 0]
                store == createPoll(poll)
            IN  /\ polls' = store.polls
                /\ votes' = store.votes
                /\ pollVoters' = store.pollVoters
                /\ idCounter' = idCounter + 1 + Len(options)
                /\ createdOptions' = MapSet(createdOptions, pollId,
                       [i \in 1..Len(options) |->
                           [id |-> options[i].id, text |-> options[i].text]])
                /\ Respond(r, body, SuccessResponse(201, poll))
    /\ UNCHANGED <<wsVars, accepted, endings, subscription>>

\* a handler that reads no body never awaits: it answers in the turn in
\* which the request arrives
Answer(kind, pollId, response) ==
    /\ received < MaxRequests
    /\ received' = received + 1
    /\ last' = Event(kind, pollId, Undefined, response, <<>>)
    /\ UNCHANGED <<inflight, storeVars, wsVars, histVars, hookVars>>

\* polls.get('/:id')
HandleGet(pollId) ==
    IF ~MapHas(polls, pollId)
    THEN Answer("get", pollId, ErrorResponse(404, "POLL_NOT_FOUND"))
    ELSE Answer("get", pollId, SuccessResponse(200, getPollWithResults(pollId)))

\* the body of the results response: the view under other field names
resultsOf(poll) ==
    [pollId |-> poll.id, title |-> poll.title, results |-> poll.options,
     totalVotes |-> poll.totalVotes, status |-> poll.status]

\* polls.get('/:id/results')
HandleResults(pollId) ==
    IF ~MapHas(polls, pollId)
    THEN Answer("results", pollId, ErrorResponse(404, "POLL_NOT_FOUND"))
    ELSE Answer("results", pollId,
                SuccessResponse(200, resultsOf(getPollWithResults(pollId))))

\* every poll accepts votes
pollIsActive_always(poll) == TRUE

\* poll.status !== 'active', negated
pollIsActive(poll) == poll.status = "active"

\* the duplicate check comes before the option check
voteError_duplicateFirst(r, body) ==
    IF body.type = "invalid" THEN ErrorResponse(500, "INTERNAL_ERROR")
    ELSE IF ~validateVote(body).isValid THEN ErrorResponse(400, "VALIDATION_ERROR")
    ELSE IF ~MapHas(polls, r.pollId) THEN ErrorResponse(404, "POLL_NOT_FOUND")
    ELSE IF ~pollIsActive(polls[r.pollId]) THEN ErrorResponse(409, "POLL_ENDED")
    ELSE IF hasVoted(r.pollId, body.voterId.val)
         THEN ErrorResponse(409, "ALREADY_VOTED")
    ELSE IF body.optionId.val \notin optionIdsOf(r.pollId)
         THEN ErrorResponse(400, "INVALID_OPTION")
    ELSE NoResponse

\* the checks of polls.post('/:id/vote') in the order of the code; "" when
\* the request passes all of them
voteError(r, body) ==
    IF body.type = "invalid" THEN ErrorResponse(500, "INTERNAL_ERROR")
    ELSE IF ~validateVote(body).isValid THEN ErrorResponse(400, "VALIDATION_ERROR")
    ELSE IF ~MapHas(polls, r.pollId) THEN ErrorResponse(404, "POLL_NOT_FOUND")
    ELSE IF ~pollIsActive(polls[r.pollId]) THEN ErrorResponse(409, "POLL_ENDED")
    ELSE IF body.optionId.val \notin optionIdsOf(r.pollId)
         THEN ErrorResponse(400, "INVALID_OPTION")
    ELSE IF hasVoted(r.pollId, body.voterId.val)
         THEN ErrorResponse(409, "ALREADY_VOTED")
    ELSE NoResponse

\* polls.post('/:id/vote')
HandleVote(r, body) ==
    /\ r.kind = "vote"
    /\ BagIn(r, inflight)
    /\ IF voteError(r, body) # NoResponse
       THEN /\ Respond(r, body, voteError(r, body))
            /\ UNCHANGED <<storeVars, accepted>>
       ELSE LET vote == [id |-> generateVoteId(idCounter + 1),
                         pollId |-> r.pollId,
                         optionId |-> body.optionId.val,
                         voterId |-> body.voterId.val]
                added == addVote(vote)
            IN  /\ idCounter' = idCounter + 1
                /\ votes' = added.votes
                /\ pollVoters' = added.pollVoters
                /\ UNCHANGED polls
                /\ IF ~added.ok
                   THEN /\ Respond(r, body, ErrorResponse(409, "ALREADY_VOTED"))
                        /\ UNCHANGED accepted
                   ELSE \* WebSocket broadcasting is disabled in the handler
                        /\ Respond(r, body, SuccessResponse(200,
                               [votedOptionId |-> vote.optionId,
                                poll |-> getPollWithResults(r.pollId)']))
                        /\ accepted' = accepted (+) SetToBag({<<r.pollId, vote.voterId>>})
    /\ UNCHANGED <<wsVars, createdOptions, endings, subscription>>

\* a poll that is already ended cannot be ended again
endError_onlyOnce(r, body) ==
    IF body.type = "invalid" THEN ErrorResponse(500, "INTERNAL_ERROR")
    ELSE IF ~MapHas(polls, r.pollId) THEN ErrorResponse(404, "POLL_NOT_FOUND")
    ELSE IF body.type = "null" THEN ErrorResponse(500, "INTERNAL_ERROR")
    ELSE IF ~Falsy(body.createdBy) /\ Str(polls[r.pollId].createdBy) # body.createdBy
         THEN ErrorResponse(403, "UNAUTHORIZED")
    ELSE IF polls[r.pollId].status = "ended" THEN ErrorResponse(409, "POLL_ENDED")
    ELSE NoResponse

\* the checks of polls.post('/:id/end') before the update; NoResponse when
\* the request passes all of them
endError(r, body) ==
    IF body.type = "invalid" THEN ErrorResponse(500, "INTERNAL_ERROR")
    ELSE IF ~MapHas(polls, r.pollId) THEN ErrorResponse(404, "POLL_NOT_FOUND")
    ELSE IF body.type = "null" THEN ErrorResponse(500, "INTERNAL_ERROR")
    ELSE IF ~Falsy(body.createdBy) /\ Str(polls[r.pollId].createdBy) # body.createdBy
         THEN ErrorResponse(403, "UNAUTHORIZED")
    ELSE NoResponse

\* polls.post('/:id/end')
HandleEnd(r, body) ==
    /\ r.kind = "end"
    /\ BagIn(r, inflight)
    /\ IF endError(r, body) # NoResponse
       THEN /\ Respond(r, body, endError(r, body))
            /\ UNCHANGED <<storeVars, endings>>
       ELSE LET ended == updatePoll(r.pollId, [status |-> "ended"])
            IN  /\ polls' = ended.polls
                /\ UNCHANGED <<votes, pollVoters, idCounter>>
                /\ IF ~ended.found
                   THEN /\ Respond(r, body, ErrorResponse(500, "INTERNAL_ERROR"))
                        /\ UNCHANGED endings
                   ELSE \* WebSocket broadcasting is disabled in the handler
                        /\ Respond(r, body, SuccessResponse(200,
                               [message |-> "ended",
                                poll |-> getPollWithResults(r.pollId)']))
                        /\ endings' = endings (+) SetToBag({r.pollId})
    /\ UNCHANGED <<wsVars, accepted, createdOptions, subscription>>

(***************************************************************************)
(* services/websocket.ts : WebSocketManager                                *)
(* A Set<WebSocketConnection> iterates in insertion order and holds        *)
(* objects by identity: it is a sequence of connection records, each made  *)
(* distinct by its clientId.                                               *)
(***************************************************************************)
Sockets == {"w1", "w2"}
NoPoll == ""
RegistryPollIds == DOMAIN polls \cup {UnknownPollId, generatePollId(1)}
Messages == {[type |-> "poll-updated"], [type |-> "poll-ended"]}

generateClientId(n) == "client-" \o ToString(n)

getConnectionCount(pollId) ==
    IF MapHas(connections, pollId) THEN Len(connections[pollId]) ELSE 0

\* the sockets registered under pollId, one entry per registration
registeredSockets(pollId) ==
    IF MapHas(connections, pollId)
    THEN [i \in 1..Len(connections[pollId]) |-> connections[pollId][i].ws]
    ELSE <<>>

\* this.connections.get(pollId)!.add(connection)
addToSet(pollConnections, connection) == Append(pollConnections, connection)

\* addConnection(pollId, ws)
AddConnection(pollId, ws) ==
    /\ calls < MaxCalls
    /\ calls' = calls + 1
    /\ LET clientId == generateClientId(clientCounter + 1)
           connection == [ws |-> ws, pollId |-> pollId, clientId |-> clientId]
           pollConnections == IF MapHas(connections, pollId)
                              THEN connections[pollId] ELSE <<>>
       IN  /\ clientCounter' = clientCounter + 1
           /\ connections' = MapSet(connections, pollId,
                                    addToSet(pollConnections, connection))
           /\ timers' = timers \cup {connection}
    /\ subscription' = [subscription EXCEPT ![ws] = pollId]
    /\ last' = Event("addConnection", pollId, ws, NoResponse, <<>>)
    /\ UNCHANGED <<storeVars, httpVars, broken, accepted, createdOptions, endings,
                   hookVars>>

\* the setTimeout callback of addConnection: sendToClient(connection, join-poll)
JoinTimerFires(connection) ==
    /\ connection \in timers
    /\ timers' = timers \ {connection}
    /\ last' = Event("joinTimer", connection.pollId, connection.ws, NoResponse,
                     IF connection.ws \in broken THEN <<>>
                     ELSE <<[ws |-> connection.ws,
                             message |-> [type |-> "join-poll"]]>>)
    /\ UNCHANGED <<storeVars, httpVars, connections, clientCounter, broken,
                   calls, histVars, hookVars>>

\* the index of the first connection of the set whose ws is ws, 0 if none
firstIndexOf(pollConnections, ws) ==
    IF \E i \in 1..Len(pollConnections) : pollConnections[i].ws = ws
    THEN CHOOSE i \in 1..Len(pollConnections) :
            /\ pollConnections[i].ws = ws
            /\ \A j \in 1..(i - 1) : pollConnections[j].ws # ws
    ELSE 0

removeAt(q, i) == SubSeq(q, 1, i - 1) \o SubSeq(q, i + 1, Len(q))

\* removeConnection(pollId, ws)
RemoveConnection(pollId, ws) ==
    /\ calls < MaxCalls
    /\ calls' = calls + 1
    /\ IF ~MapHas(connections, pollId)
       THEN UNCHANGED <<connections, subscription>>
       ELSE LET pollConnections == connections[pollId]
                i == firstIndexOf(pollConnections, ws)
                remaining == IF i = 0 THEN pollConnections
                             ELSE removeAt(pollConnections, i)
            IN  /\ connections' = IF Len(remaining) = 0
                                  THEN MapDelete(connections, pollId)
                                  ELSE MapSet(connections, pollId, remaining)
                /\ subscription' =
                       IF i # 0 /\ subscription[ws] = pollId
                       THEN [subscription EXCEPT ![ws] = NoPoll]
                       ELSE subscription
    /\ last' = Event("removeConnection", pollId, ws, NoResponse, <<>>)
    /\ UNCHANGED <<storeVars, httpVars, clientCounter, timers, broken,
                   accepted, createdOptions, endings, hookVars>>

\* the first throw ends the loop: only the connections before it are served
keepDelivered_untilThrow(pollConnections) ==
    LET failing == {i \in 1..Len(pollConnections) : pollConnections[i].ws \in broken}
    IN  IF failing = {} THEN pollConnections
        ELSE SubSeq(pollConnections, 1,
                    (CHOOSE i \in failing : \A j \in failing : i <= j) - 1)

\* the connections a broadcast keeps: those whose send did not throw
RECURSIVE keepDelivered(_)
keepDelivered(pollConnections) ==
    IF pollConnections = <<>> THEN <<>>
    ELSE IF Head(pollConnections).ws \in broken
         THEN keepDelivered(Tail(pollConnections))
         ELSE <<Head(pollConnections)>> \o keepDelivered(Tail(pollConnections))

\* broadcastToPoll(pollId, message)
BroadcastToPoll(pollId, message) ==
    /\ calls < MaxCalls
    /\ calls' = calls + 1
    /\ IF ~MapHas(connections, pollId)
       THEN /\ UNCHANGED <<connections, subscription>>
            /\ last' = Event("broadcastToPoll", pollId, message, NoResponse, <<>>)
       ELSE LET kept == keepDelivered(connections[pollId])
            IN  /\ connections' = MapSet(connections, pollId, kept)
                /\ subscription' =
                       [w \in Sockets |->
                           IF /\ subscription[w] = pollId
                              /\ \A i \in 1..Len(kept) : kept[i].ws # w
                           THEN NoPoll ELSE subscription[w]]
                /\ last' = Event("broadcastToPoll", pollId, message, NoResponse,
                                 [i \in 1..Len(kept) |->
                                     [ws |-> kept[i].ws, message |-> message]])
    /\ UNCHANGED <<storeVars, httpVars, clientCounter, timers, broken,
                   accepted, createdOptions, endings, hookVars>>

\* the transport closes a socket: from now on its send() throws
SocketBreaks(ws) ==
    /\ ws \notin broken
    /\ broken' = broken \cup {ws}
    /\ last' = Event("socketBreaks", NoPoll, ws, NoResponse, <<>>)
    /\ UNCHANGED <<storeVars, httpVars, connections, clientCounter, timers,
                   calls, histVars, hookVars>>

(***************************************************************************)
(* client hooks/useWebSocket.ts : one instance of the hook                 *)
(* Time is left out: a reconnect timer may fire at any moment after it was *)
(* set.  The URL is taken to be well formed, so new WebSocket never throws.*)
(***************************************************************************)
HookPollIds == {"poll-1", "poll-2"}
FirstPollIds == {"poll-1", ""}
NoSocket == 0
NoTimer == 0
NoError == "null"

maxReconnectAttempts == 5

\* reconnectAttempts.current < maxReconnectAttempts never fails
canReconnect_always(attempts) == TRUE

\* reconnectAttempts.current < maxReconnectAttempts
canReconnect(attempts) == attempts < maxReconnectAttempts

\* new WebSocket(`${wsUrl}/ws/${pollId}`)
NewSocket(pollId) == [pollId |-> pollId, readyState |-> "connecting"]

\* a socket after its close event: nothing refers to it any more, so which
\* poll it was for is forgotten
ClosedSocket == [pollId |-> NoPoll, readyState |-> "closed"]

\* connect() of a render with this pollId, on the given refs: the sockets
\* and wsRef.current it leaves behind
connect(sockets, ref, pollId) ==
    IF ref # NoSocket /\ sockets[ref].readyState = "open"
    THEN [sockets |-> sockets, wsRef |-> ref]
    ELSE [sockets |-> Append(sockets, NewSocket(pollId)),
          wsRef |-> Len(sockets) + 1]

\* wsRef.current.close(): the close event comes later
close(sockets, ref) ==
    IF ref # NoSocket /\ sockets[ref].readyState \in {"connecting", "open"}
    THEN [sockets EXCEPT ![ref].readyState = "closing"]
    ELSE sockets

\* clearTimeout(reconnectTimeoutRef.current)
clearTimeout(pending, id) == {t \in pending : t.id # id}

\* the step creates no socket beyond the bound
WithinMaxClientSockets == Len(clientSockets') <= MaxClientSockets

\* disconnect(), followed by connect() of the render with pollId when
\* reconnect is true
Disconnect(reconnect, pollId) ==
    LET closed == close(clientSockets, wsRef)
        connected == IF reconnect THEN connect(closed, NoSocket, pollId)
                     ELSE [sockets |-> closed, wsRef |-> NoSocket]
    IN  /\ reconnectTimers' = clearTimeout(reconnectTimers, reconnectTimeoutRef)
        /\ clientSockets' = connected.sockets
        /\ wsRef' = connected.wsRef
        /\ isConnected' = FALSE
        /\ reconnectAttempts' = 0
        /\ attemptsSinceReset' = 0
        /\ UNCHANGED <<reconnectTimeoutRef, timerCount, error, attemptsSinceOpen>>

\* connect() alone
Connect(pollId) ==
    LET connected == connect(clientSockets, wsRef, pollId)
    IN  /\ clientSockets' = connected.sockets
        /\ wsRef' = connected.wsRef

\* a render with a new pollId or a call by the component, within the bound
HookCall ==
    /\ hookCalls < MaxHookCalls
    /\ hookCalls' = hookCalls + 1

\* the effect of the first render: if (pollId) connect()
HookMount(pollId) ==
    /\ phase = "rendered"
    /\ phase' = "mounted"
    /\ hookPollId' = pollId
    /\ IF pollId # NoPoll THEN Connect(pollId)
       ELSE UNCHANGED <<clientSockets, wsRef>>
    /\ last' = Event("mount", pollId, Undefined, NoResponse, <<>>)
    /\ UNCHANGED <<reconnectTimers, reconnectTimeoutRef, timerCount, hookCalls,
                   reconnectAttempts, isConnected, error, attemptsSinceOpen,
                   attemptsSinceReset>>
    /\ UNCHANGED <<storeVars, httpVars, wsVars, histVars>>

\* a render with another pollId: the cleanup of the old effect runs
\* disconnect(), then the new effect runs
HookPollIdChanges(pollId) ==
    /\ phase = "mounted"
    /\ pollId # hookPollId
    /\ HookCall
    /\ hookPollId' = pollId
    /\ Disconnect(pollId # NoPoll, pollId)
    /\ WithinMaxClientSockets
    /\ last' = Event("pollIdChanges", pollId, Undefined, NoResponse, <<>>)
    /\ UNCHANGED phase
    /\ UNCHANGED <<storeVars, httpVars, wsVars, histVars>>

\* the component unmounts: the cleanup of the effect runs disconnect()
HookUnmount ==
    /\ phase = "mounted"
    /\ phase' = "unmounted"
    /\ Disconnect(FALSE, NoPoll)
    /\ last' = Event("unmount", hookPollId, Undefined, NoResponse, <<>>)
    /\ UNCHANGED <<hookPollId, hookCalls>>
    /\ UNCHANGED <<storeVars, httpVars, wsVars, histVars>>

\* the component calls the connect function the hook returned
CallConnect ==
    /\ phase = "mounted"
    /\ HookCall
    /\ Connect(hookPollId)
    /\ WithinMaxClientSockets
    /\ last' = Event("connect", hookPollId, Undefined, NoResponse, <<>>)
    /\ UNCHANGED <<phase, hookPollId, reconnectTimers, reconnectTimeoutRef,
                   timerCount, reconnectAttempts, isConnected, error,
                   attemptsSinceOpen, attemptsSinceReset>>
    /\ UNCHANGED <<storeVars, httpVars, wsVars, histVars>>

\* the component calls the disconnect function the hook returned
CallDisconnect ==
    /\ phase = "mounted"
    /\ HookCall
    /\ Disconnect(FALSE, NoPoll)
    /\ last' = Event("disconnect", hookPollId, Undefined, NoResponse, <<>>)
    /\ UNCHANGED <<phase, hookPollId>>
    /\ UNCHANGED <<storeVars, httpVars, wsVars, histVars>>

\* ws.onopen of socket s
onopen(s) ==
    /\ clientSockets[s].readyState = "connecting"
    /\ clientSockets' = [clientSockets EXCEPT ![s].readyState = "open"]
    /\ isConnected' = TRUE
    /\ error' = NoError
    /\ reconnectAttempts' = 0
    /\ attemptsSinceOpen' = 0
    /\ attemptsSinceReset' = 0
    /\ last' = Event("onopen", clientSockets[s].pollId, s, NoResponse, <<>>)
    /\ UNCHANGED <<phase, hookPollId, wsRef, reconnectTimers,
                   reconnectTimeoutRef, timerCount, hookCalls>>
    /\ UNCHANGED <<storeVars, httpVars, wsVars, histVars>>

\* ws.onclose of socket s: the connection failed, was lost, or was closed
\* by close()
onclose(s) ==
    /\ clientSockets[s].readyState \in {"connecting", "open", "closing"}
    /\ clientSockets' = [clientSockets EXCEPT ![s] = ClosedSocket]
    /\ isConnected' = FALSE
    /\ wsRef' = NoSocket
    /\ IF canReconnect(reconnectAttempts)
       THEN /\ reconnectAttempts' = reconnectAttempts + 1
            /\ timerCount' = timerCount + 1
            /\ reconnectTimers' = reconnectTimers \cup
                   {[id |-> timerCount + 1, pollId |-> clientSockets[s].pollId]}
            /\ reconnectTimeoutRef' = timerCount + 1
            /\ attemptsSinceOpen' = attemptsSinceOpen + 1
            /\ attemptsSinceReset' = attemptsSinceReset + 1
            /\ UNCHANGED error
       ELSE /\ error' = "connection-lost"
            /\ UNCHANGED <<reconnectAttempts, timerCount, reconnectTimers,
                           reconnectTimeoutRef, attemptsSinceOpen,
                           attemptsSinceReset>>
    /\ last' = Event("onclose", clientSockets[s].pollId, s, NoResponse, <<>>)
    /\ UNCHANGED <<phase, hookPollId, hookCalls>>
    /\ UNCHANGED <<storeVars, httpVars, wsVars, histVars>>

\* ws.onerror of socket s
onerror(s) ==
    /\ clientSockets[s].readyState \in {"connecting", "open"}
    /\ error' = "connection-error"
    /\ last' = Event("onerror", clientSockets[s].pollId, s, NoResponse, <<>>)
    /\ UNCHANGED <<phase, hookPollId, clientSockets, wsRef, reconnectTimers,
                   reconnectTimeoutRef, timerCount, hookCalls,
                   reconnectAttempts, isConnected, attemptsSinceOpen,
                   attemptsSinceReset>>
    /\ UNCHANGED <<storeVars, httpVars, wsVars, histVars>>

\* the callback that onclose gave to setTimeout: connect() of the render
\* that created the closed socket
ReconnectTimerFires(t) ==
    /\ t \in reconnectTimers
    /\ reconnectTimers' = reconnectTimers \ {t}
    /\ Connect(t.pollId)
    /\ WithinMaxClientSockets
    /\ last' = Event("reconnectTimer", t.pollId, t.id, NoResponse, <<>>)
    /\ UNCHANGED <<phase, hookPollId, reconnectTimeoutRef, timerCount,
                   hookCalls, reconnectAttempts, isConnected, error,
                   attemptsSinceOpen, attemptsSinceReset>>
    /\ UNCHANGED <<storeVars, httpVars, wsVars, histVars>>

(***************************************************************************)
(* The specification.                                                      *)
(***************************************************************************)
Init ==
    /\ polls = <<>>
    /\ votes = <<>>
    /\ pollVoters = <<>>
    /\ idCounter = 0
    /\ inflight = EmptyBag
    /\ received = 0
    /\ connections = <<>>
    /\ clientCounter = 0
    /\ timers = {}
    /\ broken = {}
    /\ calls = 0
    /\ last = Event("init", NoPoll, Undefined, NoResponse, <<>>)
    /\ accepted = EmptyBag
    /\ createdOptions = <<>>
    /\ endings = EmptyBag
    /\ phase = "rendered"
    /\ hookPollId = NoPoll
    /\ clientSockets = <<>>
    /\ wsRef = NoSocket
    /\ reconnectTimers = {}
    /\ reconnectTimeoutRef = NoTimer
    /\ timerCount = 0
    /\ hookCalls = 0
    /\ reconnectAttempts = 0
    /\ isConnected = FALSE
    /\ error = NoError
    /\ attemptsSinceOpen = 0
    /\ attemptsSinceReset = 0
    /\ subscription = [w \in Sockets |-> NoPoll]

NextLedger ==
    \/ ReceiveCreate
    \/ ReceiveVote
    \/ ReceiveEnd
    \/ \E r \in BagToSet(inflight), b \in CreateBodies : HandleCreate(r, b)
    \/ \E p \in PollIdParams : HandleGet(p)
    \/ \E p \in PollIdParams : HandleResults(p)
    \/ \E r \in BagToSet(inflight) : \E b \in VoteBodies(r.pollId) : HandleVote(r, b)
    \/ \E r \in BagToSet(inflight), b \in EndBodies : HandleEnd(r, b)

NextRegistry ==
    \/ \E p \in RegistryPollIds, w \in Sockets : AddConnection(p, w)
    \/ \E c \in timers : JoinTimerFires(c)
    \/ \E p \in RegistryPollIds, w \in Sockets : RemoveConnection(p, w)
    \/ \E p \in RegistryPollIds, m \in Messages : BroadcastToPoll(p, m)
    \/ \E w \in Sockets : SocketBreaks(w)

NextHook ==
    \/ \E p \in FirstPollIds : HookMount(p)
    \/ \E p \in HookPollIds \cup {NoPoll} : HookPollIdChanges(p)
    \/ HookUnmount
    \/ CallConnect
    \/ CallDisconnect
    \/ \E s \in 1..Len(clientSockets) : onopen(s)
    \/ \E s \in 1..Len(clientSockets) : onclose(s)
    \/ \E s \in 1..Len(clientSockets) : onerror(s)
    \/ \E t \in reconnectTimers : ReconnectTimerFires(t)

\* the step stays within MaxOps requests and WebSocketManager calls
WithinMaxOps == received' + calls' <= MaxOps

\* the whole service
Next ==
    \/ ReceiveCreate /\ WithinMaxOps
    \/ ReceiveVote /\ WithinMaxOps
    \/ ReceiveEnd /\ WithinMaxOps
    \/ \E r \in BagToSet(inflight), b \in CreateBodies : HandleCreate(r, b)
    \/ \E p \in PollIdParams : HandleGet(p) /\ WithinMaxOps
    \/ \E p \in PollIdParams : HandleResults(p) /\ WithinMaxOps
    \/ \E r \in BagToSet(inflight) : \E b \in VoteBodies(r.pollId) : HandleVote(r, b)
    \/ \E r \in BagToSet(inflight), b \in EndBodies : HandleEnd(r, b)
    \/ \E p \in RegistryPollIds, w \in Sockets : AddConnection(p, w) /\ WithinMaxOps
    \/ \E c \in timers : JoinTimerFires(c)
    \/ \E p \in RegistryPollIds, w \in Sockets : RemoveConnection(p, w) /\ WithinMaxOps
    \/ \E p \in RegistryPollIds, m \in Messages : BroadcastToPoll(p, m) /\ WithinMaxOps
    \/ \E w \in Sockets : SocketBreaks(w)

Spec == Init /\ [][Next]_vars

\* the store and its HTTP handlers alone
SpecLedger == Init /\ [][NextLedger]_vars

\* the WebSocketManager alone
SpecRegistry == Init /\ [][NextRegistry]_vars

\* one useWebSocket hook instance in the browser
SpecHook == Init /\ [][NextHook]_vars

(***************************************************************************)
(* Properties.                                                             *)
(***************************************************************************)
\* the last step answered a request of this kind
Answered(kind) == last.kind = kind /\ last.response.status # 0

\* the last step answered a vote request whose body is an object
AnsweredVoteObject == Answered("vote") /\ last.body.type = "object"

votesBy(pollId, voterId) ==
    {i \in 1..Len(getVotes(pollId)) : getVotes(pollId)[i].voterId = voterId}

RECURSIVE sumVotes(_)
sumVotes(options) ==
    IF options = <<>> THEN 0 ELSE Head(options).votes + sumVotes(Tail(options))

idsAndTexts(options) ==
    [i \in 1..Len(options) |-> [id |-> options[i].id, text |-> options[i].text]]

\* the view carried by the last response, if it carries one
lastViews ==
    IF ~last.response.success THEN {}
    ELSE IF last.kind = "get" THEN {last.response.data}
    ELSE IF last.kind = "results"
         THEN {[id |-> last.response.data.pollId,
                options |-> last.response.data.results,
                totalVotes |-> last.response.data.totalVotes]}
    ELSE IF last.kind \in {"vote", "end"} THEN {last.response.data.poll}
    ELSE {}

\* every view the store can produce in this state, and the one just returned
allViews == {getPollWithResults(p) : p \in DOMAIN polls} \cup lastViews

\* C1: a poll's vote log never holds two votes by the same voter; of the
\* vote requests of one voter on one poll at most one gets a success
\* response, and a request that passes every other check of a voter who is
\* already in the log gets ALREADY_VOTED.
C1_OneVotePerVoter ==
    /\ \A p \in DOMAIN votes : \A v \in Voters : Cardinality(votesBy(p, v)) <= 1
    /\ \A pv \in BagToSet(accepted) : CopiesIn(pv, accepted) = 1
    /\ \A pv \in BagToSet(accepted) : Cardinality(votesBy(pv[1], pv[2])) = 1
    /\ (/\ AnsweredVoteObject
        /\ validateVote(last.body).isValid
        /\ MapHas(polls, last.pollId)
        /\ pollIsActive(polls[last.pollId])
        /\ last.body.optionId.val \in optionIdsOf(last.pollId)
        /\ ~last.response.success)
       => /\ last.response.code = "ALREADY_VOTED"
          /\ Cardinality(votesBy(last.pollId, last.body.voterId.val)) = 1

\* one of two vote requests on the same poll that were in flight together
\* has been accepted while the other still awaits its body
C1_Witness ==
    /\ Answered("vote")
    /\ last.response.success
    /\ BagIn(Request("vote", last.pollId), inflight)

\* C2 as stated: a vote request on an ended poll fails with POLL_ENDED and
\* appends no vote, for every optionId and voterId.
C2_AnyIdsOnEndedPoll ==
    [][(/\ last'.kind = "vote"
        /\ last'.body.type = "object"
        /\ last'.body.optionId.type = "string"
        /\ last'.body.voterId.type = "string"
        /\ MapHas(polls, last'.pollId)
        /\ polls[last'.pollId].status = "ended")
       => /\ last'.response.code = "POLL_ENDED"
          /\ votes' = votes]_vars

\* C2 amended: a vote request that passes validateVote (optionId and
\* voterId non-empty strings) on an ended poll fails with POLL_ENDED and
\* appends no vote, whether or not the option exists or the voter has voted.
C2_ValidVoteOnEndedPoll ==
    [][(/\ last'.kind = "vote"
        /\ last'.body.type # "invalid"
        /\ validateVote(last'.body).isValid
        /\ MapHas(polls, last'.pollId)
        /\ polls[last'.pollId].status = "ended")
       => /\ ~last'.response.success
          /\ last'.response.code = "POLL_ENDED"
          /\ last'.response.status = 409
          /\ votes' = votes
          /\ pollVoters' = pollVoters]_vars

\* a voter who has voted votes again, for an unknown option, on the ended
\* poll and is answered POLL_ENDED
C2_Witness ==
    /\ AnsweredVoteObject
    /\ last.response.code = "POLL_ENDED"
    /\ last.body.optionId = Str(UnknownOptionId)
    /\ last.body.voterId.type = "string"
    /\ hasVoted(last.pollId, last.body.voterId.val)

\* C3: an end request on an existing poll whose createdBy differs from the
\* poll's (another string, the empty string, or no createdBy field) fails
\* with UNAUTHORIZED and leaves the poll's status unchanged.
C3_EndByOtherIsUnauthorized ==
    [][(/\ last'.kind = "end"
        /\ last'.body.type = "object"
        /\ MapHas(polls, last'.pollId)
        /\ last'.body.createdBy # Str(polls[last'.pollId].createdBy))
       => /\ last'.response.code = "UNAUTHORIZED"
          /\ polls'[last'.pollId].status = polls[last'.pollId].status]_vars

\* C4: in every aggregated view the vote counts of the options add up to
\* totalVotes, which is the length of the poll's vote log.
C4_CountsSumToTotal ==
    \A view \in allViews :
        /\ sumVotes(view.options) = view.totalVotes
        /\ view.totalVotes = Len(getVotes(view.id))

\* a results response for a poll with votes on two different options
C4_Witness ==
    /\ Answered("results")
    /\ last.response.success
    /\ last.response.data.totalVotes >= 2
    /\ \E i, j \in 1..Len(last.response.data.results) :
          /\ i # j
          /\ last.response.data.results[i].votes > 0
          /\ last.response.data.results[j].votes > 0

C6_OptionOrderFixed ==
    /\ DOMAIN createdOptions = DOMAIN polls
    /\ \A p \in DOMAIN polls : idsAndTexts(polls[p].options) = createdOptions[p]
    /\ \A view \in allViews : idsAndTexts(view.options) = createdOptions[view.id]

\* the poll was ended after its later option got a vote before, and more
\* votes than, its first option
C6_Witness ==
    /\ Answered("end")
    /\ last.response.success
    /\ Len(getVotes(last.pollId)) >= 1
    /\ getVotes(last.pollId)[1].optionId # polls[last.pollId].options[1].id
    /\ \E i \in 2..Len(polls[last.pollId].options) :
          last.response.data.poll.options[i].votes
              > last.response.data.poll.options[1].votes

\* the number of messages of this type the last step sent to socket ws
sentTo(ws, type) ==
    Cardinality({j \in 1..Len(last.sent) :
                    last.sent[j].ws = ws /\ last.sent[j].message.type = type})

\* socket ws is registered under pollId
isRegistered(pollId, ws) ==
    \E i \in 1..Len(registeredSockets(pollId)) : registeredSockets(pollId)[i] = ws

\* C7: after every successful vote request on poll P a 'poll-updated'
\* notification carrying the refreshed view of P is sent to every
\* connection registered for P at that moment.
C7_VoteIsBroadcast ==
    (Answered("vote") /\ last.response.success)
    => \A w \in Sockets :
          (isRegistered(last.pollId, w) /\ w \notin broken)
          => \E j \in 1..Len(last.sent) :
                /\ last.sent[j].ws = w
                /\ last.sent[j].message =
                       [type |-> "poll-updated",
                        payload |-> [poll |-> getPollWithResults(last.pollId)]]

\* C8: each successful end request that moves poll P from 'active' to
\* 'ended' delivers exactly one 'poll-ended' notification, carrying the
\* refreshed view with status 'ended', to each connection registered for P.
C8_EndIsBroadcastOnce ==
    [][\A p \in DOMAIN polls :
        (/\ last'.kind = "end"
         /\ last'.pollId = p
         /\ last'.response.success
         /\ polls[p].status = "active")
        => \A w \in Sockets :
              (isRegistered(p, w) /\ w \notin broken)
              => /\ sentTo(w, "poll-ended")' = 1
                 /\ \E j \in 1..Len(last'.sent) :
                       /\ last'.sent[j].ws = w
                       /\ last'.sent[j].message =
                              [type |-> "poll-ended",
                               payload |-> [poll |-> getPollWithResults(p)']]]_vars

\* C9: a connection whose current subscription is to poll P receives no
\* notification broadcast for another poll Q, also when it was registered
\* for Q earlier.
C9_NoForeignBroadcast ==
    last.kind = "broadcastToPoll"
    => \A j \in 1..Len(last.sent) :
          subscription[last.sent[j].ws] # NoPoll
          => subscription[last.sent[j].ws] = last.pollId

\* C10: addConnection(P, c) for a connection c already registered for P
\* leaves getConnectionCount(P) as it was, and a broadcast to P sends its
\* message to c once.
C10_SubscribeIdempotent ==
    [][\A p \in RegistryPollIds :
        /\ (/\ last'.kind = "addConnection"
             /\ last'.pollId = p
             /\ isRegistered(p, last'.body))
            => getConnectionCount(p)' = getConnectionCount(p)
        /\ (last'.kind = "broadcastToPoll" /\ last'.pollId = p)
            => \A w \in Sockets : \A m \in Messages :
                  sentTo(w, m.type)' <= 1]_vars

\* the number of registrations of socket ws under pollId
registrationsOf(pollId, ws) ==
    Cardinality({i \in 1..Len(registeredSockets(pollId)) :
                    registeredSockets(pollId)[i] = ws})

\* C11: a connection is registered under at most one poll id; after
\* addConnection(P, c) and then addConnection(Q, c) with Q # P, c is no
\* longer registered under P.
C11_OnePollPerConnection ==
    \A w \in Sockets :
        Cardinality({p \in DOMAIN connections : isRegistered(p, w)}) <= 1

\* C12: after removeConnection(P, c) the connection c is not registered
\* under P, whatever calls of addConnection came before; and when c is not
\* registered under P the call leaves every poll's registrations as they were.
C12_RemoveUnregisters ==
    [][\A p \in RegistryPollIds, w \in Sockets :
        (/\ last'.kind = "removeConnection"
         /\ last'.pollId = p
         /\ last'.body = w)
        => /\ ~isRegistered(p, w)'
           /\ ~isRegistered(p, w)
                => \A q \in RegistryPollIds :
                      registeredSockets(q)' = registeredSockets(q)]_vars

\* C13: when the send to a registered connection throws, broadcastToPoll(P, m)
\* still sends m to every other connection registered for P at the call,
\* once per registration, and the failing connection is not registered for P
\* afterwards.
C13_BroadcastBestEffort ==
    [][\A p \in RegistryPollIds, m \in Messages :
        (/\ last'.kind = "broadcastToPoll"
         /\ last'.pollId = p
         /\ last'.body = m)
        => \A w \in Sockets :
              IF w \in broken
              THEN ~isRegistered(p, w)' /\ sentTo(w, m.type)' = 0
              ELSE sentTo(w, m.type)' = registrationsOf(p, w)]_vars

\* a broadcast has just dropped the failing connection client-1 and
\* delivered to client-2, registered after it; no removeConnection was called
C13_Witness ==
    /\ last.kind = "broadcastToPoll"
    /\ calls = clientCounter + 1
    /\ \E c \in timers :
          /\ c.pollId = last.pollId
          /\ c.clientId = generateClientId(1)
          /\ c.ws \in broken
          /\ ~isRegistered(last.pollId, c.ws)
    /\ \E i \in 1..Len(last.sent) : last.sent[i].ws \notin broken
    /\ MapHas(connections, last.pollId)
    /\ \E i \in 1..Len(connections[last.pollId]) :
          connections[last.pollId][i].clientId = generateClientId(2)

\* every option of the view has no votes and percentage 0
allZero(options) ==
    \A i \in 1..Len(options) :
        options[i].votes = 0 /\ options[i].percentage = Fraction(0, 1)

\* C14: a successful create request stores a new poll with status 'active',
\* an empty vote log, an empty voter set, vote count 0 and percentage 0 for
\* every option, and totalVotes 0.
C14_CreatedPollIsEmpty ==
    [][(last'.kind = "create" /\ last'.response.success)
       => /\ last'.response.data.id \in DOMAIN polls'
          /\ \A p \in DOMAIN polls' :
                p = last'.response.data.id
                => LET view == getPollWithResults(p)'
                   IN  /\ p \notin DOMAIN polls
                       /\ polls'[p].status = "active"
                       /\ MapHas(votes', p) /\ votes'[p] = <<>>
                       /\ MapHas(pollVoters', p) /\ pollVoters'[p] = {}
                       /\ polls'[p].totalVotes = 0 /\ allZero(polls'[p].options)
                       /\ view.totalVotes = 0 /\ allZero(view.options)
                       /\ last'.response.data = polls'[p]]_vars

\* a poll has just been created next to a poll that has votes
C14_Witness ==
    /\ Answered("create")
    /\ last.response.success
    /\ getVotes(last.response.data.id) = <<>>
    /\ \E q \in DOMAIN polls :
          q # last.response.data.id /\ Len(getVotes(q)) >= 1

\* C15: a create request whose title is empty, or whose options are fewer
\* than 2 or more than 10, is answered with a validation error and leaves
\* the stored polls, vote logs and voter sets as they were.
C15_InvalidCreateStoresNothing ==
    [][(/\ last'.kind = "create"
        /\ last'.body.type = "object"
        /\ \/ last'.body.title = Str(<<>>)
           \/ /\ last'.body.options.type = "array"
              /\ \/ Len(last'.body.options.val) < 2
                 \/ Len(last'.body.options.val) > 10)
       => /\ ~last'.response.success
          /\ last'.response.code = "VALIDATION_ERROR"
          /\ last'.response.status = 400
          /\ polls' = polls
          /\ votes' = votes
          /\ pollVoters' = pollVoters]_vars

\* a create request with eleven options has been refused while a poll exists
C15_Witness ==
    /\ Answered("create")
    /\ last.body.type = "object"
    /\ Len(last.body.options.val) = 11
    /\ last.response.code = "VALIDATION_ERROR"
    /\ DOMAIN polls # {}

\* C16: a poll whose status is 'ended' keeps that status in every later
\* state, and no step removes a poll from the store.
C16_EndedIsTerminal ==
    [][\A p \in DOMAIN polls :
          /\ p \in DOMAIN polls'
          /\ polls[p].status = "ended" => polls'[p].status = "ended"]_vars

\* after a poll was ended, a vote by a new voter for one of its options has
\* been handled and a second poll has been created; the poll is still ended
C16_Witness ==
    /\ AnsweredVoteObject
    /\ MapHas(polls, last.pollId)
    /\ BagIn(last.pollId, endings)
    /\ polls[last.pollId].status = "ended"
    /\ validateVote(last.body).isValid
    /\ last.body.optionId.val \in optionIdsOf(last.pollId)
    /\ ~hasVoted(last.pollId, last.body.voterId.val)
    /\ Cardinality(DOMAIN polls) = 2

\* the votes in the log of pollId that came from this vote request body
votesOfBody(log, body) ==
    {i \in 1..Len(log) : /\ log[i].voterId = body.voterId.val
                         /\ log[i].optionId = body.optionId.val}

\* C17: however vote and end requests on a poll interleave, a vote request
\* is either answered with success and its vote is in the log exactly once,
\* or answered POLL_ENDED with the poll ended and no vote of it in the log;
\* a log only changes by the vote of one successful request, and never
\* once its poll is ended.
C17_VoteAndEndSerialize ==
    [][\A p \in DOMAIN polls :
          /\ votes'[p] # votes[p]
                => /\ polls[p].status = "active"
                   /\ last'.kind = "vote"
                   /\ last'.pollId = p
                   /\ last'.response.success
          /\ (last'.kind = "vote" /\ last'.pollId = p /\ last'.response.success)
                => /\ polls[p].status = "active"
                   /\ Len(votes'[p]) = Len(votes[p]) + 1
                   /\ SubSeq(votes'[p], 1, Len(votes[p])) = votes[p]
                   /\ Cardinality(votesOfBody(votes'[p], last'.body)) = 1
                   /\ votesOfBody(votes[p], last'.body) = {}
          /\ (/\ last'.kind = "vote"
              /\ last'.pollId = p
              /\ last'.response.code = "POLL_ENDED")
                => /\ polls[p].status = "ended"
                   /\ votes' = votes]_vars

\* an end request has just ended a poll that has a vote, while a vote
\* request on the same poll is waiting for its body
C17_Witness ==
    /\ Answered("end")
    /\ last.response.success
    /\ CopiesIn(last.pollId, endings) = 1
    /\ BagIn(Request("vote", last.pollId), inflight)
    /\ Len(getVotes(last.pollId)) >= 1

\* C18: an end request by the creator on a poll that is already 'ended' is
\* answered with success and the view of the poll with status 'ended' and
\* the tallies it had, and the poll stays 'ended'.
C18_SecondEndSucceeds ==
    [][\A p \in DOMAIN polls :
          (/\ last'.kind = "end"
           /\ last'.pollId = p
           /\ last'.body.type = "object"
           /\ last'.body.createdBy = Str(polls[p].createdBy)
           /\ polls[p].status = "ended")
          => /\ last'.response.success
             /\ last'.response.status = 200
             /\ last'.response.data.poll.status = "ended"
             /\ last'.response.data.poll.options = getPollWithResults(p).options
             /\ last'.response.data.poll.totalVotes
                    = getPollWithResults(p).totalVotes
             /\ polls'[p].status = "ended"
             /\ votes' = votes]_vars

\* the creator has just ended a poll with a vote for the second time
C18_Witness ==
    /\ Answered("end")
    /\ last.response.success
    /\ last.body.type = "object"
    /\ last.body.createdBy = Str(Creator)
    /\ CopiesIn(last.pollId, endings) = 2
    /\ last.response.data.poll.totalVotes >= 1

\* C19: a successful vote request for option o on poll P appends one vote
\* to the log of P and to no other log, and returns the refreshed view of P:
\* totalVotes is one more than before, the count of o is one more than
\* before and the count of every other option is as before.
C19_VoteCountsOnce ==
    [][\A p \in DOMAIN polls :
          (last'.kind = "vote" /\ last'.pollId = p /\ last'.response.success)
          => LET before == getPollWithResults(p)
                 view == last'.response.data.poll
                 o == last'.body.optionId.val
             IN  /\ Len(votes'[p]) = Len(votes[p]) + 1
                 /\ SubSeq(votes'[p], 1, Len(votes[p])) = votes[p]
                 /\ votes'[p][Len(votes'[p])].optionId = o
                 /\ \A q \in DOMAIN votes : q # p => votes'[q] = votes[q]
                 /\ view = getPollWithResults(p)'
                 /\ view.totalVotes = before.totalVotes + 1
                 /\ Len(view.options) = Len(before.options)
                 /\ \E i \in 1..Len(view.options) : view.options[i].id = o
                 /\ \A i \in 1..Len(view.options) :
                       /\ view.options[i].id = before.options[i].id
                       /\ view.options[i].votes =
                              before.options[i].votes
                              + (IF view.options[i].id = o THEN 1 ELSE 0)]_vars

\* a vote has been accepted on a poll whose other option already had a vote
C19_Witness ==
    /\ Answered("vote")
    /\ last.response.success
    /\ last.response.data.poll.totalVotes >= 2
    /\ \E i \in 1..Len(last.response.data.poll.options) :
          /\ last.response.data.poll.options[i].id # last.body.optionId.val
          /\ last.response.data.poll.options[i].votes >= 1

\* C20: a vote request that is answered with an error leaves every poll's
\* vote log, voter set, status and aggregated view as before the request.
C20_FailedVoteChangesNothing ==
    [][(last'.kind = "vote" /\ ~last'.response.success)
       => /\ votes' = votes
          /\ pollVoters' = pollVoters
          /\ polls' = polls
          /\ \A p \in DOMAIN polls :
                getPollWithResults(p)' = getPollWithResults(p)]_vars

\* a voter who voted for one option has just been refused a vote for another
C20_Witness ==
    /\ AnsweredVoteObject
    /\ last.response.code = "ALREADY_VOTED"
    /\ \E i \in 1..Len(getVotes(last.pollId)) :
          /\ getVotes(last.pollId)[i].voterId = last.body.voterId.val
          /\ getVotes(last.pollId)[i].optionId # last.body.optionId.val

\* the option ids of a stored poll, read from its option list
optionIdsIn(poll) == {poll.options[i].id : i \in 1..Len(poll.options)}

\* the voter ids that occur in a vote log
votersIn(log) == {log[i].voterId : i \in 1..Len(log)}

\* C21: every vote in a poll's vote log references an option id of that
\* poll's option list.
C21_VotesReferenceOptions ==
    \A p \in DOMAIN votes :
        /\ p \in DOMAIN polls
        /\ \A i \in 1..Len(votes[p]) :
              /\ votes[p][i].optionId \in optionIdsIn(polls[p])
              /\ votes[p][i].pollId = p

\* a request for an unknown option has been refused on a poll with a vote
C21_Witness ==
    /\ AnsweredVoteObject
    /\ last.response.code = "INVALID_OPTION"
    /\ Len(getVotes(last.pollId)) >= 1

\* C22: the voter set of every poll is the set of voter ids in the poll's
\* vote log and has as many elements as the log has votes, so that
\* hasVoted(P, v) is true exactly when the log of P holds a vote by v.
C22_VoterSetMatchesLog ==
    /\ DOMAIN pollVoters = DOMAIN votes
    /\ DOMAIN votes = DOMAIN polls
    /\ \A p \in DOMAIN polls :
          /\ pollVoters[p] = votersIn(votes[p])
          /\ Cardinality(pollVoters[p]) = Len(votes[p])
          /\ \A v \in Voters : hasVoted(p, v) <=> v \in votersIn(votes[p])

\* a poll has two votes by two voters, and a third voter has none
C22_Witness ==
    \E p \in DOMAIN polls :
        /\ Len(getVotes(p)) = 2
        /\ Cardinality(pollVoters[p]) = 2
        /\ \E v \in Voters : ~hasVoted(p, v)

\* the error the order POLL_NOT_FOUND, POLL_ENDED, INVALID_OPTION,
\* ALREADY_VOTED gives a well-formed vote request on pollId; "" for none
firstFailure(pollId, body) ==
    IF pollId \notin DOMAIN polls THEN "POLL_NOT_FOUND"
    ELSE IF polls[pollId].status # "active" THEN "POLL_ENDED"
    ELSE IF body.optionId.val \notin optionIdsIn(polls[pollId])
         THEN "INVALID_OPTION"
    ELSE IF body.voterId.val \in votersIn(votes[pollId]) THEN "ALREADY_VOTED"
    ELSE ""

\* C28: a well-formed vote request for which several failure conditions
\* hold is answered with the first of POLL_NOT_FOUND, POLL_ENDED,
\* INVALID_OPTION, ALREADY_VOTED that applies.
C28_FirstFailureWins ==
    [][\A p \in PollIdParams :
          (/\ last'.kind = "vote"
           /\ last'.pollId = p
           /\ last'.body.type = "object"
           /\ validateVote(last'.body).isValid)
          => IF firstFailure(p, last'.body) = ""
             THEN last'.response.success
             ELSE /\ ~last'.response.success
                  /\ last'.response.code = firstFailure(p, last'.body)]_vars

\* a voter who already voted on an active poll has asked for an unknown
\* option and got INVALID_OPTION
C28_Witness ==
    /\ AnsweredVoteObject
    /\ validateVote(last.body).isValid
    /\ MapHas(polls, last.pollId)
    /\ polls[last.pollId].status = "active"
    /\ last.body.optionId.val \notin optionIdsIn(polls[last.pollId])
    /\ last.body.voterId.val \in votersIn(getVotes(last.pollId))
    /\ last.response.code = "INVALID_OPTION"

\* C29: the vote log of a poll only grows at its end: in every step the
\* old log is a prefix of the new one, and a step that answers an end
\* request leaves every log as it was.
C29_LogIsAppendOnly ==
    [][/\ \A p \in DOMAIN votes :
             /\ p \in DOMAIN votes'
             /\ Len(votes'[p]) >= Len(votes[p])
             /\ SubSeq(votes'[p], 1, Len(votes[p])) = votes[p]
       /\ last'.kind = "end" => votes' = votes]_vars

\* a poll with a vote has been ended and a second poll has been created
C29_Witness ==
    /\ Answered("create")
    /\ last.response.success
    /\ \E p \in DOMAIN polls :
          /\ Len(getVotes(p)) >= 1
          /\ BagIn(p, endings)

\* C30: a vote or end request on poll P leaves the vote log, voter set,
\* stored poll and aggregated view of every other poll as they were, and a
\* vote for an option of an active poll by a voter who is not in that poll's
\* log succeeds, whatever the voter did on other polls.
C30_PollsAreIsolated ==
    [][\A p \in PollIdParams :
          (last'.kind \in {"vote", "end"} /\ last'.pollId = p)
          => /\ \A q \in DOMAIN polls \ {p} :
                   /\ votes'[q] = votes[q]
                   /\ pollVoters'[q] = pollVoters[q]
                   /\ polls'[q] = polls[q]
                   /\ getPollWithResults(q)' = getPollWithResults(q)
             /\ (/\ last'.kind = "vote"
                 /\ last'.body.type = "object"
                 /\ validateVote(last'.body).isValid
                 /\ firstFailure(p, last'.body) = "")
                   => last'.response.success]_vars

\* a voter who has a vote in the log of one poll has just voted on another
C30_Witness ==
    /\ AnsweredVoteObject
    /\ last.response.success
    /\ \E q \in DOMAIN polls \ {last.pollId} :
          last.body.voterId.val \in votersIn(getVotes(q))

\* C27: every stored poll has a non-empty title and 2 to 10 options, each
\* with a non-empty text.
C27_StoredPollsHaveText ==
    \A p \in DOMAIN polls :
        /\ polls[p].title # <<>>
        /\ Len(polls[p].options) >= 2
        /\ Len(polls[p].options) <= 10
        /\ \A i \in 1..Len(polls[p].options) : polls[p].options[i].text # <<>>

\* C25: the 'join-poll' confirmation of addConnection is sent only to a
\* connection that is still in the registry when the timer fires.
C25_JoinOnlyWhenRegistered ==
    [][\A c \in timers :
          (/\ last'.kind = "joinTimer"
           /\ c \notin timers'
           /\ last'.sent # <<>>)
          => /\ MapHas(connections, c.pollId)
             /\ \E i \in 1..Len(connections[c.pollId]) :
                   connections[c.pollId][i] = c]_vars

\* the sockets of the hook that are connecting or open
liveSockets ==
    {s \in 1..Len(clientSockets) :
        clientSockets[s].readyState \in {"connecting", "open"}}

\* C23: the close event of a socket that disconnect() closed schedules no
\* reconnect timer, and no reconnect timer opens a socket after the unmount
\* or for a pollId that is no longer the hook's.
C23_NoReconnectAfterDisconnect ==
    [][/\ \A s \in 1..Len(clientSockets) :
             (/\ last'.kind = "onclose"
              /\ last'.body = s
              /\ clientSockets[s].readyState = "closing")
             => reconnectTimers' = reconnectTimers
       /\ (/\ last'.kind = "reconnectTimer"
           /\ phase = "unmounted" \/ last'.pollId # hookPollId)
             => Len(clientSockets') = Len(clientSockets)]_vars

\* C24 as stated: from one successful open to the next, or since the first
\* connect, close events schedule at most 5 reconnect attempts.
C24_CappedBetweenOpens == attemptsSinceOpen <= 5

\* C24: between two resets of the attempt counter, by a successful open
\* or by disconnect(), close events schedule at most 5 reconnect attempts;
\* a close event that finds 5 attempts made schedules none and sets the
\* error state; a successful open sets the counter to 0.
C24_CappedBetweenResets ==
    [][/\ attemptsSinceReset' <= 5
       /\ reconnectAttempts' = attemptsSinceReset'
       /\ \A s \in 1..Len(clientSockets) :
             (last'.kind = "onclose" /\ last'.body = s)
             => IF attemptsSinceReset >= 5
                THEN /\ reconnectTimers' = reconnectTimers
                     /\ error' = "connection-lost"
                     /\ attemptsSinceReset' = attemptsSinceReset
                ELSE /\ Cardinality(reconnectTimers')
                            = Cardinality(reconnectTimers) + 1
                     /\ attemptsSinceReset' = attemptsSinceReset + 1
       /\ last'.kind = "onopen" => reconnectAttempts' = 0]_vars

\* the sixth socket in a row has closed without opening: five attempts
\* were made, none is pending and the error state is set
C24_Witness ==
    /\ last.kind = "onclose"
    /\ attemptsSinceReset = 5
    /\ reconnectAttempts = 5
    /\ reconnectTimers = {}
    /\ error = "connection-lost"
    /\ Len(clientSockets) = 6

\* C26: at most one socket of the hook is connecting or open, and it is
\* the newest socket and the one wsRef.current refers to.
C26_OneLiveSocket ==
    /\ Cardinality(liveSockets) <= 1
    /\ \A s \in liveSockets : s = Len(clientSockets) /\ wsRef = s

====
